---- MODULE Spec2Model ----
(***************************************************************************)
(* Flag validation subsystem of cdt-automation:                            *)
(*   ansible/files/check_flag.py   (Flag Validator, Round State Tracker,   *)
(*                                  Service Status Oracle, Flag Scanner)   *)
(* Text is modelled as sequences of one-character strings, files as        *)
(* tagged records, the scoring database as two relations.                  *)
(***************************************************************************)
EXTENDS Integers, Sequences, FiniteSets, TLC

(* ------------------------------ bounds -------------------------------- *)
\* longest file content (token file, flag file) the model enumerates
MaxStrLen == 2
\* largest --interval of RoundSpec and RaceSpec
MaxInterval == 3
\* validator invocations in one behaviour of Spec, and its largest --interval
MaxRuns == 2
\* validator invocations in one behaviour of RoundSpec
MaxCalls == 6
\* validator invocations in one behaviour of RaceSpec
MaxRaceCalls == 3
\* largest round number in team_records
MaxRound == 2
\* invocations of the validator per tree of the scanner's specification
MaxScans == 1
\* connections made to the token server in one behaviour
MaxRequests == 3
\* validator invocations in one behaviour of ServicesSpec
MaxServiceCalls == 3
\* largest --wait and --interval of validate_scoreboard.py, in seconds
MaxWait == 2

(* ------------------------------- text --------------------------------- *)
Chars == {"X", " "}

Whitespace == {" ", "\n", "\t"}

RECURSIVE SeqsUpTo(_, _)
SeqsUpTo(S, n) ==
    IF n = 0 THEN {<<>>}
    ELSE LET shorter == SeqsUpTo(S, n - 1)
         IN  shorter \cup {Append(s, c) : s \in shorter, c \in S}

Contents == SeqsUpTo(Chars, MaxStrLen)

RECURSIVE LStrip(_)
LStrip(s) ==
    IF s = <<>> THEN <<>>
    ELSE IF Head(s) \in Whitespace THEN LStrip(Tail(s)) ELSE s

RECURSIVE RStrip(_)
RStrip(s) ==
    IF s = <<>> THEN <<>>
    ELSE IF s[Len(s)] \in Whitespace THEN RStrip(SubSeq(s, 1, Len(s) - 1)) ELSE s

\* str.strip(): leading and trailing whitespace removed
Strip(s) == RStrip(LStrip(s))

(* ------------------------------- files -------------------------------- *)
\* A regular file as open()/read() sees it:
\*   none        no such file                 (FileNotFoundError)
\*   unreadable  permission denied            (PermissionError)
\*   undecodable bytes that are not text      (UnicodeDecodeError, a ValueError)
\*   text        readable, with contents text
NoFile == [kind |-> "none", text |-> <<>>]
Unreadable == [kind |-> "unreadable", text |-> <<>>]
Undecodable == [kind |-> "undecodable", text |-> <<>>]
TextFile(t) == [kind |-> "text", text |-> t]

(* ------------------------ Round State Tracker: text <-> int ------------ *)
DigitChars == <<"0", "1", "2", "3", "4", "5", "6", "7", "8", "9">>

IsDigit(c) == \E i \in 1..10 : DigitChars[i] = c

DigitVal(c) == (CHOOSE i \in 1..10 : DigitChars[i] = c) - 1

RECURSIVE StrNat(_)
StrNat(n) ==
    IF n < 10 THEN <<DigitChars[n + 1]>>
    ELSE Append(StrNat(n \div 10), DigitChars[(n % 10) + 1])

\* str(count)
Str(n) == IF n < 0 THEN <<"-">> \o StrNat(0 - n) ELSE StrNat(n)

RECURSIVE NatOf(_)
NatOf(ds) ==
    IF ds = <<>> THEN 0
    ELSE 10 * NatOf(SubSeq(ds, 1, Len(ds) - 1)) + DigitVal(ds[Len(ds)])

AllDigits(ds) == ds # <<>> /\ \A i \in 1..Len(ds) : IsDigit(ds[i])

\* int(text.strip()): an optional sign and decimal digits, anything else is a
\* ValueError
ParseInt(text) ==
    LET t == Strip(text)
        signed == t # <<>> /\ Head(t) \in {"-", "+"}
        ds == IF signed THEN Tail(t) ELSE t
    IN  IF AllDigits(ds)
        THEN [ok |-> TRUE,
              val |-> IF signed /\ Head(t) = "-" THEN 0 - NatOf(ds) ELSE NatOf(ds)]
        ELSE [ok |-> FALSE, val |-> 0]

\* mutant: the stored count is never read back
ReadCount_Fresh(file) == 0

\* the try/except around the read of the state file: the count before the
\* increment
ReadCount(file) ==
    IF file.kind = "none" THEN 0
    ELSE IF ParseInt(file.text).ok THEN ParseInt(file.text).val
    ELSE 0

\* mutant: the test made on the count before the increment
IsCheckRound_BeforeIncrement(count, interval) ==
    IF interval > 0 THEN (count - 1) % interval = 0 ELSE (count - 1) % (0 - interval) = 0

\* count % interval == 0 in Python, for a nonzero interval of either sign
IsCheckRound(count, interval) ==
    IF interval > 0 THEN count % interval = 0 ELSE count % (0 - interval) = 0

\* args.service.replace('-', '_').replace('.', '_') + ".count"
Replace(s, old, new) == [i \in 1..Len(s) |-> IF s[i] = old THEN new ELSE s[i]]

StateFileOf(service) ==
    Replace(Replace(service, "-", "_"), ".", "_") \o <<".count">>

(* ------------------------ Service Status Oracle ------------------------ *)
\* The scoring database: state "ok" or the sqlite3.Error it raises; the two
\* relations of the query.
DbErrors == {"unreachable", "locked", "no_tables"}

Rounds(db) == {tr.round : tr \in db.team_records}

\* SELECT MAX(round) FROM team_records; the set is empty when the table is
MaxRounds(db) == {r \in Rounds(db) : \A q \in Rounds(db) : q <= r}

\* mutant: the maximum round taken over the records of this service only
StatusRows_PerServiceMax(db, service_name) ==
    LET mine == {e \in db.result_entries : e.name = service_name}
        rounds == {tr.round : tr \in {t \in db.team_records :
                                        \E e \in mine : e.team_record_id = t.id}}
        top == {r \in rounds : \A q \in rounds : q <= r}
    IN  {e.status : e \in
            {x \in mine : \E tr \in db.team_records :
                              tr.id = x.team_record_id /\ tr.round \in top}}

\* the rows of the join for one service name: the statuses LIMIT 1 picks from
StatusRows(db, service_name) ==
    {re.status : re \in
        {e \in db.result_entries :
            /\ e.name = service_name
            /\ \E tr \in db.team_records :
                  tr.id = e.team_record_id /\ tr.round \in MaxRounds(db)}}

\* mutant: a database error read as UP
get_service_status_FailOpen(db, service_name) ==
    IF db.state # "ok" THEN {TRUE}
    ELSE IF StatusRows(db, service_name) = {} THEN {FALSE}
    ELSE {st = 1 : st \in StatusRows(db, service_name)}

\* The values get_service_status can return: LIMIT 1 without ORDER BY yields
\* any one of the matching rows.
get_service_status(db, service_name) ==
    IF db.state # "ok" THEN {FALSE}
    ELSE IF StatusRows(db, service_name) = {} THEN {FALSE}
    ELSE {st = 1 : st \in StatusRows(db, service_name)}

(* ----------------------------- Flag Scanner ---------------------------- *)
\* A search tree: the directories below one search path, each "ok", "missing"
\* or "unlistable", with the files it holds by name. os.walk lists the
\* children of a directory in the order Children gives.
Root == <<>>
Paths == {Root, <<"a">>, <<"a", "b">>, <<"c">>}

FlagName == "flag.txt"
FileNames == {FlagName, "index.html"}

Children(p) ==
    IF p = Root THEN << <<"a">>, <<"c">> >>
    ELSE IF p = <<"a">> THEN << <<"a", "b">> >>
    ELSE << >>

\* os.walk(search_path), top-down: a directory that does not exist or cannot
\* be listed is skipped silently with its subtree (onerror is None)
RECURSIVE Walk(_, _)
RECURSIVE WalkAll(_, _)
Walk(tree, p) ==
    IF tree[p].dir # "ok" THEN << >>
    ELSE <<p>> \o WalkAll(tree, Children(p))
WalkAll(tree, ps) ==
    IF ps = << >> THEN << >>
    ELSE Walk(tree, Head(ps)) \o WalkAll(tree, Tail(ps))

\* the loop body over the walked directories: "TRUE", "FALSE", or "RAISE"
\* when an exception that is no IOError escapes (UnicodeDecodeError)
RECURSIVE ScanDirs(_, _, _, _)
ScanDirs(tree, ds, filename, expected_token) ==
    IF ds = << >> THEN "FALSE"
    ELSE LET f == tree[Head(ds)].files[filename]
         IN  IF f.kind = "none" THEN ScanDirs(tree, Tail(ds), filename, expected_token)
             ELSE IF f.kind = "unreadable"
                  THEN ScanDirs(tree, Tail(ds), filename, expected_token)
             ELSE IF f.kind = "undecodable" THEN "RAISE"
             ELSE IF Strip(f.text) = expected_token THEN "TRUE"
             ELSE ScanDirs(tree, Tail(ds), filename, expected_token)

find_valid_flag(tree, filename, expected_token) ==
    ScanDirs(tree, Walk(tree, Root), filename, expected_token)

(* --------------------------- state of the model ------------------------ *)
\* service identifiers (--service), as text
WebSvc == <<"w", "-", "1">>
OtherSvc == <<"d", "b">>
ServiceNames == {WebSvc, OtherSvc}

StateFiles == {StateFileOf(s) : s \in ServiceNames}

Procs == {1, 2}

Outcomes ==
    {"TOKEN_FILE_MISSING", "SKIP_INTERVAL", "SERVICE_DOWN", "FLAG_VALID", "FLAG_NOT_FOUND"}

VARIABLES
    tokenFile,      \* TOKEN_FILE as a file
    stateDir,       \* STATE_DIR: "ok", "uncreatable" or "readonly"
    counterFiles,   \* the files of STATE_DIR by name
    db,             \* the scoring database at DB_PATH
    tree,           \* the directory tree at --path
    interval,       \* --interval of the scheduler's invocations
    pc,             \* per invocation: its position in main
    service,        \* per invocation: --service
    expected_token, \* per invocation: main's expected_token
    count,          \* per invocation: should_check_this_round's count
    stdout,         \* per invocation: the lines printed to stdout
    trace,          \* per invocation: the steps of main it has evaluated
    ret,            \* per invocation: what should_check_this_round returned
    tokenAt,        \* per invocation: the token file as STEP 1 found it
    before,         \* per invocation: the counter when it began
    after,          \* per invocation: the counter last stored when it ended
    stored,         \* per state file: the count last stored and the highest
    started,        \* validator invocations begun
    advanced,       \* calls of should_check_this_round that stored a count
    tally,          \* invocations ended, by outcome
    configFile,     \* CONFIG_FILE of the aggregator as a file
    fsys,           \* the directory tree at each search path of CONFIG_FILE
    agg,            \* the aggregator: its runs and the last one's outcome
    listener,       \* the token server: serving or stopped, and by what
    conns,          \* per client: its connection to the token server
    served,         \* connections made to the token server, and those failed
    engine,         \* what a fetch of the scoring engine's scoreboard gives now
    vs              \* the run of validate_scoreboard.py

vars ==
    <<tokenFile, stateDir, counterFiles, db, tree, interval, pc, service,
      expected_token, count, stdout, trace, ret, tokenAt, before, after,
      stored, started, advanced, tally, configFile, fsys, agg, listener,
      conns, served, engine, vs>>

\* the scoreboard validation and the engine it asks
scoreboard == <<engine, vs>>

\* the aggregator and the token server with what only they read
others == <<configFile, fsys, agg, listener, conns, served>>

\* what no step of the validator writes
env == <<stateDir, db, tree, interval, others, scoreboard>>

\* what no step of the aggregator or the token server writes
validator ==
    <<stateDir, db, tree, interval, counterFiles, pc, service, expected_token,
      count, stdout, trace, ret, tokenAt, before, after, stored, started,
      advanced, tally, scoreboard>>

\* the locals of main and the history of one invocation
locals == <<service, expected_token, count, ret, tokenAt, before>>

(* ------------------------- environments enumerated --------------------- *)
TokenFiles == {NoFile, Unreadable} \cup {TextFile(t) : t \in Contents}

FlagFiles == {NoFile, Unreadable, Undecodable} \cup {TextFile(t) : t \in Contents}

NoFiles == [n \in FileNames |-> NoFile]

MissingDir == [dir |-> "missing", files |-> NoFiles]

\* the trees whose only directory is the search root, holding at most a flag
RootTrees ==
    {[p \in Paths |-> IF p = Root THEN [dir |-> "ok", files |-> [NoFiles EXCEPT ![FlagName] = f]]
                      ELSE MissingDir] : f \in FlagFiles}
    \cup {[p \in Paths |-> IF p = Root THEN [dir |-> d, files |-> NoFiles] ELSE MissingDir] :
            d \in {"missing", "unlistable"}}

\* the databases over team record ids and service names: each id is absent
\* (round 0) or a record of a round; each record holds at most one entry per
\* name, with status 0 or 1 (-1: no entry)
DbOf(ids, names, rf, ef) ==
    [state |-> "ok",
     team_records |-> {[id |-> i, round |-> rf[i]] : i \in {j \in ids : rf[j] > 0}},
     result_entries |->
         {[team_record_id |-> k[1], name |-> k[2], status |-> ef[k]] :
             k \in {x \in ids \X names : ef[x] >= 0}}]

DbStates(ids, names) ==
    UNION {{DbOf(ids, names, rf, ef) :
                ef \in {g \in [ids \X names -> {-1, 0, 1}] :
                          \A x \in ids \X names : rf[x[1]] = 0 => g[x] = -1}} :
            rf \in [ids -> 0..MaxRound]}

BrokenDbs == {[state |-> e, team_records |-> {}, result_entries |-> {}] : e \in DbErrors}


Endings == Outcomes \cup {"CRASH"}

(* --------------------------- Flag Aggregator --------------------------- *)
\* CONFIG_FILE as a file: absent, unreadable, text that is no JSON, a JSON
\* array, a JSON object whose "paths" is no object, or a JSON object whose
\* "paths" lists <<host label, search path>> in the order of the document
HostLabels == {"a", "b"}
AggPaths == {"/srv/a", "/srv/b"}

NoConfig == [kind |-> "none", paths |-> << >>, filename |-> "absent"]

ConfigOf(k, ps, fn) == [kind |-> k, paths |-> ps, filename |-> fn]

Returned(n) == [raise |-> FALSE, value |-> n]
Raised == [raise |-> TRUE, value |-> 0]

\* one host's walk: 1 at the first match, 0 when the walk ends without one,
\* raised when an exception that is no IOError escapes (UnicodeDecodeError)
RECURSIVE CountDirs_NoBreak(_, _, _, _)
RECURSIVE CountDirs(_, _, _, _)
CountDirs_NoBreak(t, ds, filename, token) ==
    IF ds = << >> THEN Returned(0)
    ELSE LET f == t[Head(ds)].files[filename]
             rest == CountDirs_NoBreak(t, Tail(ds), filename, token)
         IN  IF f.kind \in {"none", "unreadable"} THEN rest
             ELSE IF f.kind = "undecodable" THEN Raised
             ELSE IF Strip(f.text) = token /\ ~rest.raise THEN Returned(rest.value + 1)
             ELSE rest
CountDirs(t, ds, filename, token) ==
    IF ds = << >> THEN Returned(0)
    ELSE LET f == t[Head(ds)].files[filename]
         IN  IF f.kind \in {"none", "unreadable"}
             THEN CountDirs(t, Tail(ds), filename, token)
             ELSE IF f.kind = "undecodable" THEN Raised
             ELSE IF Strip(f.text) = token THEN Returned(1)
             ELSE CountDirs(t, Tail(ds), filename, token)

\* the loop over paths.items(), in the order of the document
RECURSIVE CountHosts(_, _, _, _, _)
CountHosts(fs, hosts, filename, token, n) ==
    IF hosts = << >> THEN Returned(n)
    ELSE LET t == fs[Head(hosts)[2]]
             r == CountDirs(t, Walk(t, Root), filename, token)
         IN  IF r.raise THEN Raised
             ELSE CountHosts(fs, Tail(hosts), filename, token, n + r.value)

count_flags(tokenF, configF, fs) ==
    IF tokenF.kind = "none" THEN Returned(0)
    ELSE IF tokenF.kind # "text" THEN Raised
    ELSE IF configF.kind \in {"none", "invalid"} THEN Returned(0)
    ELSE IF configF.kind # "object" THEN Raised
    ELSE CountHosts(fs, configF.paths,
                    IF configF.filename = "absent" THEN FlagName ELSE configF.filename,
                    Strip(tokenF.text), 0)

\* print("CLEAR") or print(f"DETECTED_{count}")
AggLine(n) == IF n = 0 THEN <<"CLEAR">> ELSE <<"DETECTED_">> \o Str(n)

(* ---------------------- Token Distribution Service --------------------- *)
\* a character outside ASCII, and str.encode(): UTF-8, one or two bytes
WideChar == "U+00E9"

Utf8(c) ==
    IF c = WideChar THEN <<"c3", "a9">>
    ELSE IF c = "X" THEN <<"58">>
    ELSE <<"20">>

RECURSIVE Encode(_)
Encode(s) == IF s = << >> THEN << >> ELSE Utf8(Head(s)) \o Encode(Tail(s))

Directory == [kind |-> "directory", text |-> << >>]

RequestPaths == {"/token", "/token/", "/"}

NotConfigured == <<"Token not configured">>
NotFound == <<"Not found. Use GET /token">>

\* what the handler does with the connection: the status line, the
\* Content-Length header (-1 when none is sent) and the bytes written, or
\* an exception that leaves do_GET before anything is sent
Response(st, n, bytes) == [raise |-> FALSE, status |-> st, length |-> n, sent |-> bytes]
NoResponse == [raise |-> TRUE, status |-> 0, length |-> -1, sent |-> << >>]

do_GET(path, file) ==
    IF path = "/token"
    THEN IF file.kind = "text"
         THEN LET token == Strip(file.text)
              IN  Response(200, Len(token), Encode(token))
         ELSE IF file.kind = "none" THEN Response(500, -1, NotConfigured)
         ELSE NoResponse
    ELSE Response(404, -1, NotFound)

\* the body an HTTP client reads: Content-Length bytes when the header is
\* there, else all that was written before the connection closed
Body(r) ==
    IF r.length >= 0 /\ r.length < Len(r.sent) THEN SubSeq(r.sent, 1, r.length)
    ELSE r.sent

Clients == {1, 2}

\* requests handled so far: all, those not answered 200, those whose
\* handler raised
NoneServed == [requests |-> 0, handled |-> 0, failed |-> 0, raised |-> 0]

\* ticket: the connection's place in the order the connections were made
NoConn ==
    [state |-> "none", path |-> "/", resp |-> NoResponse, tokenAt |-> NoFile,
     earlier |-> NoneServed, ticket |-> 0]

IdleAgg == [runs |-> 0, state |-> "idle", count |-> 0, stdout |-> << >>, tokenAt |-> NoFile]

MissingTree == [p \in Paths |-> MissingDir]

\* no aggregator configuration on this host
NoAggregatorFiles ==
    /\ configFile = NoConfig
    /\ fsys = [p \in AggPaths |-> MissingTree]

(* ------------------------- Scoreboard Validation ----------------------- *)
\* what urlopen gives: the page, URLError (HTTPError is one), or another
\* exception (a timeout while reading, bytes that are not UTF-8)
Refused == [kind |-> "URLError", names |-> << >>, marks |-> << >>]
HttpError == [kind |-> "HTTPError", names |-> << >>, marks |-> << >>]
Garbled == [kind |-> "Exception", names |-> << >>, marks |-> << >>]

\* a page: the check names and the up.png / down.png marks, each in the
\* order of the document
Page(ns, ms) == [kind |-> "page", names |-> ns, marks |-> ms]

Min(a, b) == IF a < b THEN a ELSE b

\* the i-th name is paired with the i-th mark; names without a mark are left out
parse_scoreboard(page) ==
    [i \in 1..Min(Len(page.names), Len(page.marks)) |->
        [name |-> page.names[i], status |-> page.marks[i]]]

\* all_passing of validate_services
validate_services(services) == \A i \in 1..Len(services) : services[i].status # "down"

IdleVs ==
    [pc |-> "idle", wait |-> 0, interval |-> 0, elapsed |-> 0, exit |-> -1,
     tried |-> 0, refused |-> 0, fetched |-> FALSE, seen |-> << >>, services |-> << >>]

(* ------------------------------- Init ---------------------------------- *)
\* nothing has run yet
IdleProcs ==
    /\ pc = [p \in Procs |-> "idle"]
    /\ service = [p \in Procs |-> WebSvc]
    /\ expected_token = [p \in Procs |-> <<>>]
    /\ count = [p \in Procs |-> 0]
    /\ stdout = [p \in Procs |-> <<>>]
    /\ trace = [p \in Procs |-> <<>>]
    /\ ret = [p \in Procs |-> "none"]
    /\ tokenAt = [p \in Procs |-> NoFile]
    /\ before = [p \in Procs |-> [file |-> NoFile, high |-> 0]]
    /\ after = [p \in Procs |-> 0]
    /\ stored = [f \in StateFiles |-> [last |-> 0, high |-> 0]]
    /\ started = 0
    /\ advanced = 0
    /\ tally = [e \in Endings |-> 0]
    /\ agg = IdleAgg
    /\ listener = [state |-> "serving", cause |-> "none"]
    /\ conns = [c \in Clients |-> NoConn]
    /\ served = NoneServed
    /\ vs = IdleVs

\* no state file has been written yet
InitProcs ==
    /\ counterFiles = [f \in StateFiles |-> NoFile]
    /\ IdleProcs

Init ==
    /\ tokenFile \in TokenFiles
    /\ stateDir \in {"ok", "uncreatable", "readonly"}
    /\ db \in DbStates({1}, {WebSvc}) \cup BrokenDbs
    /\ tree \in RootTrees
    /\ interval \in 0..MaxRuns
    /\ NoAggregatorFiles
    /\ engine = Refused
    /\ InitProcs

(* ------------------------------ main ----------------------------------- *)
Running(p) == pc[p] \notin {"idle", "exited", "crashed"}

\* the scheduler starts check_flag.py --service s
Start(p, s) ==
    /\ ~Running(p)
    /\ started' = started + 1
    /\ pc' = [pc EXCEPT ![p] = "load_token"]
    /\ service' = [service EXCEPT ![p] = s]
    /\ expected_token' = [expected_token EXCEPT ![p] = <<>>]
    /\ count' = [count EXCEPT ![p] = 0]
    /\ stdout' = [stdout EXCEPT ![p] = <<>>]
    /\ trace' = [trace EXCEPT ![p] = <<>>]
    /\ ret' = [ret EXCEPT ![p] = "none"]
    /\ tokenAt' = [tokenAt EXCEPT ![p] = NoFile]
    /\ before' = [before EXCEPT ![p] = [file |-> counterFiles[StateFileOf(s)],
                                        high |-> stored[StateFileOf(s)].high]]
    /\ after' = [after EXCEPT ![p] = 0]
    /\ UNCHANGED <<env, tokenFile, counterFiles, stored, advanced, tally>>

\* the process ends: what the counter holds then
Ended(p, ending) ==
    /\ after' = [after EXCEPT ![p] = stored'[StateFileOf(service[p])].last]
    /\ tally' = [tally EXCEPT ![ending] = @ + 1]

\* print(line); sys.exit(0)
Exit(p, line, step) ==
    /\ pc' = [pc EXCEPT ![p] = "exited"]
    /\ stdout' = [stdout EXCEPT ![p] = Append(@, line)]
    /\ trace' = [trace EXCEPT ![p] = Append(@, step)]
    /\ Ended(p, line)

\* an exception nothing catches: traceback on stderr, nothing on stdout
Crash(p, step) ==
    /\ pc' = [pc EXCEPT ![p] = "crashed"]
    /\ trace' = [trace EXCEPT ![p] = Append(@, step)]
    /\ Ended(p, "CRASH")
    /\ UNCHANGED stdout

Goto(p, next, step) ==
    /\ pc' = [pc EXCEPT ![p] = next]
    /\ trace' = [trace EXCEPT ![p] = Append(@, step)]
    /\ UNCHANGED <<stdout, after, tally>>

\* mutant: a missing token file read as an empty token
LoadToken_CountsFirst(p) ==
    /\ pc[p] = "load_token"
    /\ UNCHANGED <<env, tokenFile, counterFiles, stored, service, count, ret, before,
                   started, advanced>>
    /\ tokenAt' = [tokenAt EXCEPT ![p] = tokenFile]
    /\ IF tokenFile.kind \in {"none", "text"} THEN
            /\ expected_token' = [expected_token EXCEPT ![p] = Strip(tokenFile.text)]
            /\ Goto(p, "read_count", "token")
       ELSE Crash(p, "token") /\ UNCHANGED expected_token

\* STEP 1: load the expected token
LoadToken(p) ==
    /\ pc[p] = "load_token"
    /\ UNCHANGED <<env, tokenFile, counterFiles, stored, service, count, ret, before,
                   started, advanced>>
    /\ tokenAt' = [tokenAt EXCEPT ![p] = tokenFile]
    /\ IF tokenFile.kind = "none" THEN
            Exit(p, "TOKEN_FILE_MISSING", "token") /\ UNCHANGED expected_token
       ELSE IF tokenFile.kind = "text" THEN
            /\ expected_token' = [expected_token EXCEPT ![p] = Strip(tokenFile.text)]
            /\ Goto(p, "read_count", "token")
       ELSE Crash(p, "token") /\ UNCHANGED expected_token

\* should_check_this_round: makedirs and the read of the state file
ReadState(p) ==
    /\ pc[p] = "read_count"
    /\ UNCHANGED <<env, tokenFile, counterFiles, stored, service, expected_token, tokenAt,
                   before, started, advanced>>
    /\ LET file == counterFiles[StateFileOf(service[p])]
       IN  IF stateDir = "uncreatable" \/ file.kind = "unreadable" THEN
                /\ Crash(p, "round")
                /\ ret' = [ret EXCEPT ![p] = "raise"]
                /\ UNCHANGED count
           ELSE /\ count' = [count EXCEPT ![p] = ReadCount(file)]
                /\ pc' = [pc EXCEPT ![p] = "open_write"]
                /\ UNCHANGED <<stdout, trace, ret, after, tally>>

\* mutant: a state file that cannot be opened for writing is passed over
OpenWrite_IgnoresFailure(p) ==
    /\ pc[p] = "open_write"
    /\ UNCHANGED <<env, tokenFile, stored, service, expected_token, tokenAt, before, started,
                   advanced>>
    /\ IF stateDir = "readonly" THEN
            /\ Exit(p, "SKIP_INTERVAL", "round")
            /\ ret' = [ret EXCEPT ![p] = "False"]
            /\ UNCHANGED <<count, counterFiles>>
       ELSE /\ count' = [count EXCEPT ![p] = @ + 1]
            /\ counterFiles' = [counterFiles EXCEPT ![StateFileOf(service[p])] = TextFile(<<>>)]
            /\ pc' = [pc EXCEPT ![p] = "write_count"]
            /\ UNCHANGED <<stdout, trace, ret, after, tally>>

\* should_check_this_round: count += 1; open(state_path, 'w') truncates
OpenWrite(p) ==
    /\ pc[p] = "open_write"
    /\ UNCHANGED <<env, tokenFile, stored, service, expected_token, tokenAt, before, started,
                   advanced>>
    /\ IF stateDir = "readonly" THEN
            /\ Crash(p, "round")
            /\ ret' = [ret EXCEPT ![p] = "raise"]
            /\ UNCHANGED <<count, counterFiles>>
       ELSE /\ count' = [count EXCEPT ![p] = @ + 1]
            /\ counterFiles' = [counterFiles EXCEPT ![StateFileOf(service[p])] = TextFile(<<>>)]
            /\ pc' = [pc EXCEPT ![p] = "write_count"]
            /\ UNCHANGED <<stdout, trace, ret, after, tally>>

\* mutant: a check round goes straight to the scan
WriteState_SkipsStatus(p) ==
    /\ pc[p] = "write_count"
    /\ counterFiles' = [counterFiles EXCEPT ![StateFileOf(service[p])] = TextFile(Str(count[p]))]
    /\ stored' = [stored EXCEPT ![StateFileOf(service[p])] =
                    [last |-> count[p], high |-> IF count[p] > @.high THEN count[p] ELSE @.high]]
    /\ advanced' = advanced + 1
    /\ IF interval = 0 THEN
            Crash(p, "round") /\ ret' = [ret EXCEPT ![p] = "raise"]
       ELSE IF ~IsCheckRound(count[p], interval) THEN
            Exit(p, "SKIP_INTERVAL", "round") /\ ret' = [ret EXCEPT ![p] = "False"]
       ELSE Goto(p, "scan", "round") /\ ret' = [ret EXCEPT ![p] = "True"]
    /\ UNCHANGED <<env, tokenFile, service, expected_token, count, tokenAt, before, started>>

\* should_check_this_round: f.write(str(count)), the return, and STEP 2 of main
WriteState(p) ==
    /\ pc[p] = "write_count"
    /\ counterFiles' = [counterFiles EXCEPT ![StateFileOf(service[p])] = TextFile(Str(count[p]))]
    /\ stored' = [stored EXCEPT ![StateFileOf(service[p])] =
                    [last |-> count[p], high |-> IF count[p] > @.high THEN count[p] ELSE @.high]]
    /\ advanced' = advanced + 1
    /\ IF interval = 0 THEN
            Crash(p, "round") /\ ret' = [ret EXCEPT ![p] = "raise"]
       ELSE IF ~IsCheckRound(count[p], interval) THEN
            Exit(p, "SKIP_INTERVAL", "round") /\ ret' = [ret EXCEPT ![p] = "False"]
       ELSE Goto(p, "status", "round") /\ ret' = [ret EXCEPT ![p] = "True"]
    /\ UNCHANGED <<env, tokenFile, service, expected_token, count, tokenAt, before, started>>

\* mutant: the status is queried and ignored
QueryStatus_NoGate(p) ==
    /\ pc[p] = "status"
    /\ UNCHANGED <<env, tokenFile, counterFiles, stored, locals, started, advanced>>
    /\ \E up \in get_service_status(db, service[p]) : Goto(p, "scan", "status")

\* STEP 3: the service must be UP
QueryStatus(p) ==
    /\ pc[p] = "status"
    /\ UNCHANGED <<env, tokenFile, counterFiles, stored, locals, started, advanced>>
    /\ \E up \in get_service_status(db, service[p]) :
          IF ~up THEN Exit(p, "SERVICE_DOWN", "status") ELSE Goto(p, "scan", "status")

\* STEP 4: search for a valid flag
FindFlag(p) ==
    /\ pc[p] = "scan"
    /\ UNCHANGED <<env, tokenFile, counterFiles, stored, locals, started, advanced>>
    /\ LET found == find_valid_flag(tree, FlagName, expected_token[p])
       IN  IF found = "TRUE" THEN Exit(p, "FLAG_VALID", "scan")
           ELSE IF found = "FALSE" THEN Exit(p, "FLAG_NOT_FOUND", "scan")
           ELSE Crash(p, "scan")

Step(p) ==
    \/ LoadToken(p)
    \/ ReadState(p)
    \/ OpenWrite(p)
    \/ WriteState(p)
    \/ QueryStatus(p)
    \/ FindFlag(p)

\* an operator removes the token file
DeleteToken ==
    /\ tokenFile.kind # "none"
    /\ tokenFile' = NoFile
    /\ UNCHANGED <<env, counterFiles, stored, pc, stdout, trace, after, locals, started,
                   advanced, tally>>

\* the scheduler runs the validator once per round, one invocation at a time;
\* every environment, short runs
Next ==
    \/ started < MaxRuns /\ Start(1, WebSvc)
    \/ Step(1)
    \/ DeleteToken

Spec == Init /\ [][Next]_vars

(* ----------------------- the Round State Tracker alone ----------------- *)
UpDb == DbOf({1}, {WebSvc}, [i \in {1} |-> 1], [x \in {1} \X {WebSvc} |-> 1])

FlagTree(text) ==
    [p \in Paths |-> IF p = Root THEN [dir |-> "ok", files |-> [NoFiles EXCEPT ![FlagName] = TextFile(text)]]
                     ELSE MissingDir]

\* one service, every interval, long sequential runs
RoundInit ==
    /\ tokenFile \in {NoFile, TextFile(<<"X">>)}
    /\ stateDir \in {"ok", "uncreatable", "readonly"}
    /\ db \in {UpDb} \cup BrokenDbs
    /\ tree = FlagTree(<<"X">>)
    /\ interval \in 0..MaxInterval
    /\ NoAggregatorFiles
    /\ engine = Refused
    /\ InitProcs

RoundNext ==
    \/ started < MaxCalls /\ Start(1, WebSvc)
    \/ Step(1)
    \/ DeleteToken

RoundSpec == RoundInit /\ [][RoundNext]_vars

(* --------------------------- overlapping invocations ------------------- *)
\* the scheduler double-fires: invocations for one service overlap
RaceInit ==
    /\ tokenFile = TextFile(<<"X">>)
    /\ stateDir = "ok"
    /\ db \in {UpDb} \cup BrokenDbs
    /\ tree \in {FlagTree(<<"X">>), FlagTree(<<" ">>)}
    /\ interval \in 1..MaxInterval
    /\ NoAggregatorFiles
    /\ engine = Refused
    /\ InitProcs

RaceNext ==
    \E p \in Procs :
        \/ started < MaxRaceCalls /\ Start(p, WebSvc)
        \/ Step(p)

RaceSpec == RaceInit /\ [][RaceNext]_vars

(* ------------------------ the Service Status Oracle alone -------------- *)
\* every database over two team records and two service names
OracleInit ==
    /\ tokenFile = TextFile(<<"X">>)
    /\ stateDir = "ok"
    /\ db \in DbStates({1, 2}, ServiceNames) \cup BrokenDbs
    /\ tree \in {FlagTree(<<"X">>), FlagTree(<<" ">>)}
    /\ interval = 1
    /\ NoAggregatorFiles
    /\ engine = Refused
    /\ InitProcs

OracleNext ==
    \/ started < MaxRuns /\ Start(1, WebSvc)
    \/ Step(1)

OracleSpec == OracleInit /\ [][OracleNext]_vars

(* --------------------------- the Flag Scanner alone -------------------- *)
\* flag files: empty, the token, the token with whitespace after or before
ScanTexts == {<< >>, <<"X">>, <<"X", " ">>, <<" ", "X">>}

ScanFlags == {NoFile, Unreadable, Undecodable} \cup {TextFile(t) : t \in ScanTexts}

DirOf(f, o) ==
    [dir |-> "ok", files |-> [n \in FileNames |-> IF n = FlagName THEN f ELSE o]]

UnlistableDir(f) == [DirOf(f, NoFile) EXCEPT !.dir = "unlistable"]

\* below the root: a directory is missing, cannot be listed (whatever it
\* holds), or holds at most a flag; the root may also hold a file of
\* another name with the token in it
ScanDirStates ==
    {MissingDir, UnlistableDir(TextFile(<<"X">>))} \cup {DirOf(f, NoFile) : f \in ScanFlags}

ScanTrees ==
    {[p \in Paths |-> IF p = Root /\ t[p].dir = "ok" THEN DirOf(t[p].files[FlagName], o)
                      ELSE t[p]] :
        t \in [Paths -> ScanDirStates], o \in {NoFile, TextFile(<<"X">>)}}

\* every such tree, the service up, every round a check round
ScanInit ==
    /\ tokenFile \in {TextFile(<<"X">>), TextFile(<< >>)}
    /\ stateDir = "ok"
    /\ db = UpDb
    /\ tree \in ScanTrees
    /\ interval = 1
    /\ NoAggregatorFiles
    /\ engine = Refused
    /\ InitProcs

ScanNext ==
    \/ started < MaxScans /\ Start(1, WebSvc)
    \/ Step(1)

ScanSpec == ScanInit /\ [][ScanNext]_vars

(* --------------------------- the Flag Aggregator ----------------------- *)
\* one run of check_flag_count.py: it reads the token, the configuration and
\* the trees and writes nothing but its standard output
Aggregate_BumpsCounter ==
    /\ agg.runs < MaxRuns
    /\ LET r == count_flags(tokenFile, configFile, fsys)
       IN  agg' = [runs |-> agg.runs + 1,
                   state |-> IF r.raise THEN "crashed" ELSE "exited",
                   count |-> r.value,
                   stdout |-> IF r.raise THEN << >> ELSE <<AggLine(r.value)>>,
                   tokenAt |-> tokenFile]
    /\ counterFiles' =
           [counterFiles EXCEPT ![StateFileOf(WebSvc)] =
               TextFile(Str(ReadCount(counterFiles[StateFileOf(WebSvc)]) + 1))]
    /\ UNCHANGED <<stateDir, db, tree, interval, pc, service, expected_token,
                   count, stdout, trace, ret, tokenAt, before, after, stored,
                   started, advanced, tally, scoreboard, tokenFile, configFile,
                   fsys, listener, conns, served>>

Aggregate ==
    /\ agg.runs < MaxRuns
    /\ LET r == count_flags(tokenFile, configFile, fsys)
       IN  agg' = [runs |-> agg.runs + 1,
                   state |-> IF r.raise THEN "crashed" ELSE "exited",
                   count |-> r.value,
                   stdout |-> IF r.raise THEN << >> ELSE <<AggLine(r.value)>>,
                   tokenAt |-> tokenFile]
    /\ UNCHANGED <<validator, tokenFile, configFile, fsys, listener, conns, served>>

\* the configurations: hosts in either order, on the same or different paths
HostLists ==
    {<< >>}
    \cup {<< <<l, q>> >> : l \in HostLabels, q \in AggPaths}
    \cup {<< <<"a", q1>>, <<"b", q2>> >> : q1 \in AggPaths, q2 \in AggPaths}
    \cup {<< <<"b", q1>>, <<"a", q2>> >> : q1 \in AggPaths, q2 \in AggPaths}

Configs ==
    {ConfigOf(k, << >>, "absent") : k \in {"none", "unreadable", "invalid", "array", "badpaths"}}
    \cup {ConfigOf("object", h, fn) : h \in HostLists, fn \in {"absent", "index.html"}}

\* the trees under a host's path: the root and one directory below it
AggFlags == {NoFile, Unreadable, Undecodable, TextFile(<<"X">>), TextFile(<< >>)}

AggTrees ==
    {[p \in Paths |-> IF p = Root THEN r ELSE IF p = <<"a">> THEN a ELSE MissingDir] :
        r \in {MissingDir, UnlistableDir(TextFile(<<"X">>)), DirOf(NoFile, TextFile(<<"X">>))}
                \cup {DirOf(f, NoFile) : f \in AggFlags},
        a \in {MissingDir, DirOf(TextFile(<<"X">>), NoFile)}}

AggTokens ==
    {NoFile, Unreadable, TextFile(<<"X">>), TextFile(<<"X", " ">>), TextFile(<< >>)}

AggInit ==
    /\ tokenFile \in AggTokens
    /\ configFile \in Configs
    /\ fsys \in [AggPaths -> AggTrees]
    /\ stateDir = "ok"
    /\ db = UpDb
    /\ tree = FlagTree(<<"X">>)
    /\ interval = 1
    /\ engine = Refused
    /\ InitProcs

AggNext == Aggregate

AggSpec == AggInit /\ [][AggNext]_vars

(* ------------------------- the Token Distribution Service -------------- *)
\* the requests handled so far, with one more whose handler gave r
Tallied(r) ==
    [served EXCEPT !.handled = @ + 1,
                   !.failed = IF r.raise \/ r.status # 200 THEN @ + 1 ELSE @,
                   !.raised = IF r.raise THEN @ + 1 ELSE @]

\* the client has a connection open that the server has not finished with:
\* "queued" with its request sent, "silent" with nothing sent, "held" once
\* the handler waits to read the request of a silent client
Waiting(c) == conns[c].state \in {"queued", "silent", "held"}

\* the listening socket hands over connections in the order they were made
Oldest(c) ==
    \A d \in Clients :
        conns[d].state \in {"queued", "silent"} => conns[c].ticket <= conns[d].ticket

\* a client connects and sends "GET path"; nothing listens once main is over
Connect(c, path) ==
    /\ served.requests < MaxRequests
    /\ ~Waiting(c)
    /\ conns' = [conns EXCEPT ![c] =
                    [NoConn EXCEPT !.state = IF listener.state = "stopped" THEN "refused"
                                             ELSE "queued",
                                   !.path = path,
                                   !.ticket = served.requests + 1]]
    /\ served' = [served EXCEPT !.requests = @ + 1]
    /\ UNCHANGED <<validator, tokenFile, configFile, fsys, agg, listener>>

\* serve_forever takes the next connection and runs the handler on it; an
\* exception that leaves do_GET is reported on stderr by the server's
\* handle_error, the connection is closed and the loop goes on
Serve_StopsOnError(c) ==
    /\ listener.state = "serving"
    /\ conns[c].state = "queued"
    /\ Oldest(c)
    /\ LET r == do_GET(conns[c].path, tokenFile)
       IN  /\ conns' = [conns EXCEPT ![c] =
                           [state |-> IF r.raise THEN "dropped" ELSE "answered",
                            path |-> conns[c].path,
                            resp |-> r,
                            tokenAt |-> IF conns[c].path = "/token" THEN tokenFile ELSE NoFile,
                            earlier |-> served,
                            ticket |-> conns[c].ticket]]
           /\ served' = Tallied(r)
           /\ listener' = IF r.raise THEN [state |-> "stopped", cause |-> "handler error"]
                          ELSE listener
    /\ UNCHANGED <<validator, tokenFile, configFile, fsys, agg>>
Serve(c) ==
    /\ listener.state = "serving"
    /\ conns[c].state = "queued"
    /\ Oldest(c)
    /\ LET r == do_GET(conns[c].path, tokenFile)
       IN  /\ conns' = [conns EXCEPT ![c] =
                           [state |-> IF r.raise THEN "dropped" ELSE "answered",
                            path |-> conns[c].path,
                            resp |-> r,
                            tokenAt |-> IF conns[c].path = "/token" THEN tokenFile ELSE NoFile,
                            earlier |-> served,
                            ticket |-> conns[c].ticket]]
           /\ served' = Tallied(r)
    /\ UNCHANGED <<validator, tokenFile, configFile, fsys, agg, listener>>

\* Ctrl+C: serve_forever is left, the server is shut down and main returns;
\* connections not yet taken are reset
Interrupt ==
    /\ listener.state # "stopped"
    /\ listener' = [state |-> "stopped", cause |-> "KeyboardInterrupt"]
    /\ conns' = [c \in Clients |-> IF Waiting(c)
                                   THEN [conns[c] EXCEPT !.state = "reset"]
                                   ELSE conns[c]]
    /\ UNCHANGED <<validator, tokenFile, configFile, fsys, agg, served>>

\* the token files an operator can leave at TOKEN_FILE, with the tokens: empty, plain, with whitespace around it, and outside ASCII
ServedTexts == {<< >>, <<"X">>, <<" ", "X", " ">>, <<WideChar>>, <<"X", WideChar>>}

ServedTokenFiles ==
    {NoFile, Unreadable, Undecodable, Directory} \cup {TextFile(t) : t \in ServedTexts}

\* an operator rotates, removes or breaks the token file
RotateToken(f) ==
    /\ f # tokenFile
    /\ tokenFile' = f
    /\ UNCHANGED <<validator, others>>

ServerInit ==
    /\ tokenFile \in ServedTokenFiles
    /\ stateDir = "ok"
    /\ db = UpDb
    /\ tree = FlagTree(<<"X">>)
    /\ interval = 1
    /\ NoAggregatorFiles
    /\ engine = Refused
    /\ InitProcs

ServerNext ==
    \/ \E c \in Clients, path \in RequestPaths : Connect(c, path)
    \/ \E c \in Clients : Serve(c)
    \/ Interrupt
    \/ \E f \in ServedTokenFiles : RotateToken(f)

ServerSpec == ServerInit /\ [][ServerNext]_vars

(* ----------------------- several services, one scheduler --------------- *)
\* a service identifier that differs from WebSvc in one character
DotSvc == <<"w", ".", "1">>

Services == ServiceNames \cup {DotSvc}

\* the scheduler invokes the validator for one service after another
ServicesInit ==
    /\ tokenFile = TextFile(<<"X">>)
    /\ stateDir = "ok"
    /\ db = UpDb
    /\ tree = FlagTree(<<"X">>)
    /\ interval \in 1..MaxInterval
    /\ NoAggregatorFiles
    /\ engine = Refused
    /\ InitProcs

ServicesNext ==
    \/ started < MaxServiceCalls /\ \E s \in Services : Start(1, s)
    \/ Step(1)

ServicesSpec == ServicesInit /\ [][ServicesNext]_vars

(* ------------------------- clients that stall -------------------------- *)
\* a client connects and sends nothing
Stall(c) ==
    /\ served.requests < MaxRequests
    /\ listener.state # "stopped"
    /\ ~Waiting(c)
    /\ conns' = [conns EXCEPT ![c] =
                    [NoConn EXCEPT !.state = "silent", !.ticket = served.requests + 1]]
    /\ served' = [served EXCEPT !.requests = @ + 1]
    /\ UNCHANGED <<validator, tokenFile, configFile, fsys, agg, listener>>

\* serve_forever takes the connection of a silent client: the handler waits
\* for the request line, with no timeout, in the one thread the server has
Await(c) ==
    /\ listener.state = "serving"
    /\ conns[c].state = "silent"
    /\ Oldest(c)
    /\ conns' = [conns EXCEPT ![c].state = "held"]
    /\ listener' = [state |-> "reading", cause |-> "none"]
    /\ UNCHANGED <<validator, tokenFile, configFile, fsys, agg, served>>

\* the silent client closes its connection: a handler waiting on it reads
\* end of file and returns, and serve_forever goes on
Hangup(c) ==
    /\ conns[c].state \in {"silent", "held"}
    /\ conns' = [conns EXCEPT ![c].state = "closed"]
    /\ listener' = IF conns[c].state = "held" THEN [state |-> "serving", cause |-> "none"]
                   ELSE listener
    /\ UNCHANGED <<validator, tokenFile, configFile, fsys, agg, served>>

\* the next step of serve_forever, whichever connection it takes
TakeNext == \E c \in Clients : Serve(c) \/ Await(c)

StallInit ==
    /\ tokenFile = TextFile(<<"X">>)
    /\ stateDir = "ok"
    /\ db = UpDb
    /\ tree = FlagTree(<<"X">>)
    /\ interval = 1
    /\ NoAggregatorFiles
    /\ engine = Refused
    /\ InitProcs

StallNext ==
    \/ \E c \in Clients, path \in RequestPaths : Connect(c, path)
    \/ \E c \in Clients : Stall(c)
    \/ \E c \in Clients : Serve(c)
    \/ \E c \in Clients : Await(c)
    \/ \E c \in Clients : Hangup(c)
    \/ Interrupt

\* the server's loop runs whenever a connection is there to take; clients
\* and the operator are under no obligation
StallSpec == StallInit /\ [][StallNext]_vars /\ WF_vars(TakeNext)

(* ----------------------- the scoreboard validation -------------------- *)
everything_else ==
    <<tokenFile, stateDir, db, tree, interval, counterFiles, pc, service, expected_token,
      count, stdout, trace, ret, tokenAt, before, after, stored, started, advanced, tally,
      others>>

\* sys.exit(code) of main
VsExit(code, fields) == [fields EXCEPT !.pc = "exited", !.exit = code]

\* python3 validate_scoreboard.py --wait w --interval i
VsStart(w, i) ==
    /\ vs.pc = "idle"
    /\ vs' = [vs EXCEPT !.pc = IF w > 0 THEN "poll" ELSE "check", !.wait = w, !.interval = i]
    /\ UNCHANGED <<everything_else, engine>>

\* single check mode: one fetch, then the result and the exit code
VsCheck ==
    /\ vs.pc = "check"
    /\ LET tried == [vs EXCEPT !.tried = @ + 1]
       IN  IF engine.kind = "page" THEN
                LET services == parse_scoreboard(engine)
                IN  vs' = VsExit(IF validate_services(services) THEN 0 ELSE 1,
                                 [tried EXCEPT !.fetched = TRUE, !.seen = services,
                                               !.services = services])
           ELSE IF engine.kind \in {"URLError", "HTTPError"} THEN
                vs' = VsExit(2, [tried EXCEPT !.refused = @ + 1])
           ELSE vs' = VsExit(3, tried)
    /\ UNCHANGED <<everything_else, engine>>

\* wait mode: one turn of the loop of wait_for_green, and the rest of main
\* once the loop returns
VsPoll ==
    /\ vs.pc = "poll"
    /\ IF vs.elapsed > vs.wait THEN
            vs' = VsExit(1, [vs EXCEPT !.services = << >>])
       ELSE LET tried == [vs EXCEPT !.tried = @ + 1]
            IN  IF engine.kind = "page" THEN
                     LET services == parse_scoreboard(engine)
                         got == [tried EXCEPT !.fetched = TRUE, !.seen = services]
                     IN  IF validate_services(services)
                         THEN vs' = VsExit(0, [got EXCEPT !.services = services])
                         ELSE vs' = [got EXCEPT !.elapsed = @ + vs.interval]
                ELSE IF engine.kind \in {"URLError", "HTTPError"} THEN
                     vs' = [tried EXCEPT !.refused = @ + 1, !.elapsed = @ + vs.interval]
                ELSE vs' = VsExit(3, tried)
    /\ UNCHANGED <<everything_else, engine>>

\* scoreboards of up to two checks
Names == {<< >>, <<"a">>, <<"a", "b">>}
Marks == UNION {[1..n -> {"up", "down"}] : n \in 0..2}

EngineStates == {Refused, HttpError, Garbled} \cup {Page(ns, ms) : ns \in Names, ms \in Marks}

\* the engine starts, stops, or scores another round
EngineChange(e) ==
    /\ vs.pc \in {"check", "poll"}
    /\ e # engine
    /\ engine' = e
    /\ UNCHANGED <<everything_else, vs>>

BoardInit ==
    /\ engine \in EngineStates
    /\ tokenFile = TextFile(<<"X">>)
    /\ stateDir = "ok"
    /\ db = UpDb
    /\ tree = FlagTree(<<"X">>)
    /\ interval = 1
    /\ NoAggregatorFiles
    /\ InitProcs

BoardNext ==
    \/ \E w \in 0..MaxWait, i \in 1..MaxWait : VsStart(w, i)
    \/ VsCheck
    \/ VsPoll
    \/ \E e \in EngineStates : EngineChange(e)

BoardSpec == BoardInit /\ [][BoardNext]_vars

(* ----------------------- state files left by earlier runs -------------- *)
\* what the state file of a service can hold when an invocation begins: a
\* count, nothing, text that is no number, a negative number, other bytes
CounterFiles ==
    {NoFile, Undecodable}
    \cup {TextFile(t) : t \in {<< >>, <<" ">>, <<"X">>, <<"2">>, <<"-", "5">>}}

CorruptInit ==
    /\ tokenFile = TextFile(<<"X">>)
    /\ stateDir = "ok"
    /\ db = UpDb
    /\ tree = FlagTree(<<"X">>)
    /\ interval \in 1..MaxInterval
    /\ NoAggregatorFiles
    /\ engine = Refused
    /\ \E c \in CounterFiles :
          counterFiles = [f \in StateFiles |-> IF f = StateFileOf(WebSvc) THEN c ELSE NoFile]
    /\ IdleProcs

CorruptNext ==
    \/ started < MaxRuns /\ Start(1, WebSvc)
    \/ Step(1)

CorruptSpec == CorruptInit /\ [][CorruptNext]_vars

(* ------------------- validator and aggregator on one host -------------- *)
\* the service is checked and found DOWN
DownDb == DbOf({1}, {WebSvc}, [i \in {1} |-> 1], [x \in {1} \X {WebSvc} |-> 0])

\* one or two hosts configured, with a flag planted or not under each path
MixedConfigs ==
    {ConfigOf("object", h, "absent") :
        h \in {<< <<"a", q>> >> : q \in AggPaths}
              \cup {<< <<"a", q1>>, <<"b", q2>> >> : q1 \in AggPaths, q2 \in AggPaths}}

MixedTrees == {MissingTree, FlagTree(<<"X">>)}

\* the scheduler runs the validator for one service round after round while
\* the aggregator is run at any moment in between
MixedInit ==
    /\ tokenFile = TextFile(<<"X">>)
    /\ stateDir = "ok"
    /\ db \in {UpDb, DownDb}
    /\ tree \in {FlagTree(<<"X">>), FlagTree(<<" ">>)}
    /\ interval \in 1..MaxInterval
    /\ configFile \in MixedConfigs
    /\ fsys \in [AggPaths -> MixedTrees]
    /\ engine = Refused
    /\ InitProcs

MixedNext ==
    \/ started < MaxCalls /\ Start(1, WebSvc)
    \/ Step(1)
    \/ Aggregate

MixedSpec == MixedInit /\ [][MixedNext]_vars

(* ============================ properties =============================== *)
IsPrefix(s, t) == Len(s) <= Len(t) /\ s = SubSeq(t, 1, Len(s))

Has(tr, step) == \E i \in 1..Len(tr) : tr[i] = step

Quiet == \A p \in Procs : ~Running(p)

Over(p) == pc[p] \in {"exited", "crashed"}

Printed(p, line) == pc[p] = "exited" /\ stdout[p] = <<line>>

MainOrder == <<"token", "round", "status", "scan">>

\* the result entries of a service name in the greatest round of all records
EntriesInMaxRound(d, name) ==
    {e \in d.result_entries :
        /\ e.name = name
        /\ \E tr \in d.team_records :
              /\ tr.id = e.team_record_id
              /\ \A other \in d.team_records : other.round <= tr.round}

\* a directory os.walk reaches: it and all above it exist and can be listed
Reachable(t, d) == \A i \in 0..Len(d) : t[SubSeq(d, 1, i)].dir = "ok"

\* some reachable file of that name holds the token, both trimmed
FlagPlanted(t, filename, tokenText) ==
    \E d \in Paths :
        /\ Reachable(t, d)
        /\ t[d].files[filename].kind = "text"
        /\ Strip(t[d].files[filename].text) = Strip(tokenText)

WebCounter == counterFiles[StateFileOf(WebSvc)]

CounterHolding(n) == IF n = 0 THEN NoFile ELSE TextFile(Str(n))

\* C1: main evaluates its steps in the order token, round counter, service
\* status, scan; the scan runs only after the token was read, the round
\* counter reported a check round and the database reported UP; an invocation
\* that ends TOKEN_FILE_MISSING, SKIP_INTERVAL or SERVICE_DOWN has scanned
\* nothing, and one that ends SKIP_INTERVAL has not queried the database.
C1_ShortCircuitsBeforeScan ==
    \A p \in Procs :
        /\ IsPrefix(trace[p], MainOrder)
        /\ (pc[p] = "scan" \/ Has(trace[p], "scan")) =>
              /\ tokenAt[p].kind = "text"
              /\ ret[p] = "True"
              /\ \E e \in EntriesInMaxRound(db, service[p]) : e.status = 1
        /\ (Printed(p, "TOKEN_FILE_MISSING") \/ Printed(p, "SKIP_INTERVAL")
               \/ Printed(p, "SERVICE_DOWN")) => ~Has(trace[p], "scan")
        /\ Printed(p, "SKIP_INTERVAL") => ~Has(trace[p], "status")

C1_Witness ==
    \E p \in Procs : Printed(p, "FLAG_NOT_FOUND") /\ trace[p] = MainOrder

\* C2: FLAG_VALID is printed only if the database holds an UP entry for the
\* service in the maximum round and a reachable file with the flag filename
\* holds the token, both trimmed.
C2_FlagValidOnlyIfUpAndPlanted ==
    \A p \in Procs :
        Printed(p, "FLAG_VALID") =>
            /\ db.state = "ok"
            /\ \E e \in EntriesInMaxRound(db, service[p]) : e.status = 1
            /\ tokenAt[p].kind = "text"
            /\ FlagPlanted(tree, FlagName, tokenAt[p].text)

C2_Witness ==
    \E p \in Procs :
        /\ Printed(p, "FLAG_VALID")
        /\ tokenAt[p].text # Strip(tokenAt[p].text)
        /\ tree[Root].files[FlagName].text # tokenAt[p].text

\* C3: an invocation that finds no token file prints TOKEN_FILE_MISSING and
\* nothing else, evaluates no later step (no round counter, no database) and
\* leaves the counter file as it was when the invocation began.
C3_MissingTokenTouchesNothing ==
    \A p \in Procs :
        (Over(p) /\ tokenAt[p].kind = "none") =>
            /\ Printed(p, "TOKEN_FILE_MISSING")
            /\ trace[p] = <<"token">>
            /\ ret[p] = "none"
            /\ counterFiles[StateFileOf(service[p])] = before[p].file

C3_Witness ==
    \E p \in Procs :
        /\ Printed(p, "TOKEN_FILE_MISSING")
        /\ before[p].file.kind = "text"
        /\ interval > 0

\* C4: on a fresh counter, called sequentially with interval n > 0, the k-th
\* call of should_check_this_round stores k and returns true iff k mod n = 0;
\* so after k calls it has returned true k div n times.
C4_TrueOnEveryNthCall ==
    /\ \A p \in Procs :
          ret[p] \in {"True", "False"} =>
              /\ interval > 0
              /\ count[p] = advanced
              /\ WebCounter = TextFile(Str(advanced))
              /\ (ret[p] = "True") <=> (advanced % interval = 0)
    /\ (Quiet /\ interval > 0) =>
          /\ tally["SERVICE_DOWN"] + tally["FLAG_VALID"] + tally["FLAG_NOT_FOUND"]
                = advanced \div interval
          /\ tally["SKIP_INTERVAL"] = advanced - (advanced \div interval)

C4_Witness ==
    /\ interval = MaxInterval
    /\ advanced = 2 * MaxInterval
    /\ ret[1] = "True"
    /\ tally["SKIP_INTERVAL"] = 2 * (MaxInterval - 1)

\* C5 as claimed: after k sequential invocations from an absent counter
\* file, each ended in one of the five outcomes, the counter file holds k.
C5_EveryInvocationCounts ==
    (Quiet /\ tally["CRASH"] = 0) => WebCounter = CounterHolding(started)

\* C5 amended: after k sequential invocations from an absent counter file,
\* each ended in one of the five outcomes, the counter file holds k minus the
\* number of invocations that ended TOKEN_FILE_MISSING.
C5_CountsUnlessTokenMissing ==
    (Quiet /\ tally["CRASH"] = 0) =>
        WebCounter = CounterHolding(started - tally["TOKEN_FILE_MISSING"])

C5_Witness ==
    /\ Quiet
    /\ tally["CRASH"] = 0
    /\ started = MaxCalls
    /\ tally["TOKEN_FILE_MISSING"] = 2
    /\ tally["SKIP_INTERVAL"] = 2

\* C6 as claimed: when an invocation has ended, the count last stored is
\* greater than every count stored before the invocation began.
C6_CounterStrictlyIncreases ==
    \A p \in Procs : (Over(p) /\ ret[p] # "none") => after[p] > before[p].high

\* C7 as claimed: no update is lost (once all invocations have ended the
\* counter file holds the number of calls that stored a count), and two
\* overlapping invocations hold two different counts.
C7_NoLostUpdate ==
    /\ Quiet => WebCounter = CounterHolding(advanced)
    /\ \A p, q \in Procs :
          (p # q /\ pc[p] \in {"write_count", "status", "scan"}
                 /\ pc[q] \in {"write_count", "status", "scan"}) => count[p] # count[q]

\* C8: with no result entry for the service in the greatest round of all team
\* records, get_service_status returns false (main prints SERVICE_DOWN).
C8_NoEntryInMaxRoundIsDown ==
    \A p \in Procs :
        (Has(trace[p], "status") /\ db.state = "ok"
            /\ EntriesInMaxRound(db, service[p]) = {}) => Printed(p, "SERVICE_DOWN")

C8_Witness ==
    \E p \in Procs :
        /\ Printed(p, "SERVICE_DOWN")
        /\ EntriesInMaxRound(db, service[p]) = {}
        /\ \E e \in db.result_entries : e.name = service[p] /\ e.status = 1
        /\ \E e \in db.result_entries : e.name # service[p] /\ e.status = 1

\* C9 as claimed: when the maximum round holds several entries for the
\* service and not all are UP, get_service_status returns false.
C9_TiesResolveDown ==
    \A p \in Procs :
        (Has(trace[p], "status") /\ db.state = "ok"
            /\ Cardinality(EntriesInMaxRound(db, service[p])) > 1
            /\ \E e \in EntriesInMaxRound(db, service[p]) : e.status # 1)
        => Printed(p, "SERVICE_DOWN")

\* C10: when the database raises an error, get_service_status returns false
\* and the invocation prints SERVICE_DOWN: it neither crashes nor scans.
C10_BrokenDbIsServiceDown ==
    \A p \in Procs :
        (Has(trace[p], "status") /\ db.state # "ok") =>
            Printed(p, "SERVICE_DOWN") /\ trace[p] = <<"token", "round", "status">>

C10_Witness ==
    \E p \in Procs :
        /\ Printed(p, "SERVICE_DOWN")
        /\ db.state = "locked"
        /\ FlagPlanted(tree, FlagName, tokenAt[p].text)

\* an invocation that reached STEP 4 and ended
Scanned(p) == Over(p) /\ Has(trace[p], "scan")

\* C11: find_valid_flag returns True exactly when some reachable file named
\* filename, at any depth, holds the token once trimmed, whatever else the
\* tree holds and in whatever order it is walked
C11_TrueIffFlagPlanted ==
    \A p \in Procs :
        Scanned(p) =>
            (Printed(p, "FLAG_VALID") <=> FlagPlanted(tree, FlagName, tokenAt[p].text))

\* C12: no file that cannot be read and no directory that cannot be listed
\* aborts find_valid_flag: it returns, True when a valid flag lies elsewhere
\* in the tree, and False when the root itself is missing or inaccessible
C12_ReadFailuresNeverAbort ==
    \A p \in Procs :
        Scanned(p) =>
            /\ pc[p] = "exited"
            /\ FlagPlanted(tree, FlagName, tokenAt[p].text) => Printed(p, "FLAG_VALID")
            /\ tree[Root].dir # "ok" => Printed(p, "FLAG_NOT_FOUND")

\* the aggregator has run, and what it was given
AggOver == agg.runs > 0

AggFilename == IF configFile.filename = "absent" THEN FlagName ELSE configFile.filename

\* the configured hosts under whose path a flag is planted
HostsWithFlag ==
    {i \in 1..Len(configFile.paths) :
        FlagPlanted(fsys[configFile.paths[i][2]], AggFilename, agg.tokenAt.text)}

\* C13: the count count_flags returns is at most the number of host labels
\* in the configuration, however many matching flag files one host holds
C13_AtMostOnePerHost ==
    agg.state = "exited" => agg.count <= Len(configFile.paths)

\* one host whose tree holds two matching flags, counted once
C13_Witness ==
    /\ agg.state = "exited"
    /\ Len(configFile.paths) = 1
    /\ agg.count = 1
    /\ LET t == fsys[configFile.paths[1][2]]
       IN  \A d \in {Root, <<"a">>} :
              /\ t[d].dir = "ok"
              /\ t[d].files[AggFilename].kind = "text"
              /\ Strip(t[d].files[AggFilename].text) = Strip(agg.tokenAt.text)

\* C14: a host whose scan fails counts 0 and changes nothing for the other
\* hosts: with token and configuration read, count_flags returns the number
\* of hosts that hold a flag, in whichever order the hosts are listed
C14_HostFailuresCountZero ==
    (AggOver /\ agg.tokenAt.kind = "text" /\ configFile.kind = "object") =>
        /\ agg.state = "exited"
        /\ agg.count = Cardinality(HostsWithFlag)

\* C15: with the token file or the configuration unavailable for any reason
\* (missing, unreadable, no JSON, JSON of the wrong shape) count_flags
\* returns 0 and the aggregator prints CLEAR
C15_UnavailableInputsGiveClear ==
    (AggOver /\ (agg.tokenAt.kind # "text" \/ configFile.kind # "object")) =>
        /\ agg.state = "exited"
        /\ agg.count = 0
        /\ agg.stdout = << <<"CLEAR">> >>

\* the lines the aggregator can print
AggVocabulary == {<<"CLEAR">>} \cup {<<"DETECTED_">> \o Str(n) : n \in 1..Cardinality(HostLabels)}

\* C16: every invocation of the validator and of the aggregator that has
\* ended wrote exactly one line to standard output, a word of the fixed
\* vocabulary, in every environment (state directory that cannot be
\* written, token file that cannot be read, interval 0)
C16_ExactlyOneOutcomeLine ==
    /\ \A p \in Procs : Over(p) => Len(stdout[p]) = 1 /\ stdout[p][1] \in Outcomes
    /\ AggOver => Len(agg.stdout) = 1 /\ agg.stdout[1] \in AggVocabulary

\* the server's handler has run on the client's request
Handled(c) == conns[c].state \in {"answered", "dropped"}

Answered(c, st) ==
    conns[c].state = "answered" /\ ~conns[c].resp.raise /\ conns[c].resp.status = st

\* C17: every GET is answered by path and token state: "/token" with the
\* token file present gives 200 and the trimmed token as the body, "/token"
\* with the token file missing gives 500 and 'Token not configured', every
\* other path gives 404 and 'Not found. Use GET /token'
C17_AnswersByPathAndTokenState ==
    \A c \in Clients :
        Handled(c) =>
            LET r == conns[c].resp
                f == conns[c].tokenAt
            IN  /\ (conns[c].path = "/token" /\ f.kind = "text") =>
                       Answered(c, 200) /\ Body(r) = Encode(Strip(f.text))
                /\ (conns[c].path = "/token" /\ f.kind = "none") =>
                       Answered(c, 500) /\ Body(r) = NotConfigured
                /\ conns[c].path # "/token" =>
                       Answered(c, 404) /\ Body(r) = NotFound

\* C18: whatever requests came before, failed ones included, the listener
\* still serves and answers "/token" with 200 when the token can be read;
\* it leaves the serving state by KeyboardInterrupt alone
C18_ListenerKeepsServing ==
    /\ listener.state = "stopped" => listener.cause = "KeyboardInterrupt"
    /\ \A c \in Clients :
          (Handled(c) /\ conns[c].path = "/token" /\ conns[c].tokenAt.kind = "text") =>
              Answered(c, 200)

\* a 200 after a handler that raised and after a request answered 404 or 500
C18_Witness ==
    /\ listener.state = "serving"
    /\ \E c \in Clients :
          /\ Answered(c, 200)
          /\ conns[c].earlier.raised > 0
          /\ conns[c].earlier.failed > conns[c].earlier.raised

\* C19: the token is read anew each time: the body of every 200 is the
\* trimmed content the token file had when that request was handled, and
\* every validator and aggregator invocation compares against the content
\* the token file had at that invocation
C19_TokenNeverCached ==
    /\ \A c \in Clients :
          Answered(c, 200) => Body(conns[c].resp) = Encode(Strip(conns[c].tokenAt.text))
    /\ \A p \in Procs :
          (Has(trace[p], "token") /\ tokenAt[p].kind = "text") =>
              expected_token[p] = Strip(tokenAt[p].text)
    /\ (agg.state = "exited" /\ configFile.kind = "object") =>
          agg.count = Cardinality(HostsWithFlag)

\* C20: a request to "/token" while the token cannot be read, for whatever
\* reason, is answered 500 with the fixed body, never with a closed
\* connection
C20_UnreadableTokenGives500 ==
    \A c \in Clients :
        (Handled(c) /\ conns[c].path = "/token" /\ conns[c].tokenAt.kind # "text") =>
            Answered(c, 500) /\ Body(conns[c].resp) = NotConfigured

\* an invocation is inside should_check_this_round or has been through it
InTracker(p) ==
    pc[p] \in {"read_count", "open_write", "write_count"} \/ Has(trace[p], "round")

\* C21: an invocation with an interval of 0 or less is rejected before the
\* Round State Tracker is called: the tracker is never entered, no count is
\* stored and the state file is as it was
C21_NonPositiveIntervalRejected ==
    interval <= 0 =>
        /\ \A p \in Procs : ~InTracker(p)
        /\ advanced = 0
        /\ WebCounter = NoFile

\* C22: a step of an invocation for service A leaves the persisted round
\* counter of every other service identifier B as it was
C22_OtherCountersUntouched ==
    [][\A p \in Procs : \A B \in Services :
          (Running(p) /\ pc'[p] # pc[p] /\ B # service[p]) =>
              counterFiles'[StateFileOf(B)] = counterFiles[StateFileOf(B)]]_vars

\* the four lines main prints after the Round State Tracker has returned
Verdicts == {"SKIP_INTERVAL", "SERVICE_DOWN", "FLAG_VALID", "FLAG_NOT_FOUND"}

\* C23: when the state directory cannot be created or the state file cannot
\* be written, an invocation that reached the tracker ends in an uncaught
\* exception: it prints none of the four verdicts, should_check_this_round
\* returns nothing, and no count is stored
C23_UnstoredCountIsFatal ==
    stateDir # "ok" =>
        /\ advanced = 0
        /\ \A p \in Procs :
              /\ \A i \in 1..Len(stdout[p]) : stdout[p][i] \notin Verdicts
              /\ ret[p] \in {"none", "raise"}
              /\ (Over(p) /\ tokenAt[p].kind = "text") =>
                    pc[p] = "crashed" /\ ret[p] = "raise" /\ stdout[p] = << >>

\* every invocation of the run was ended by the open for writing that failed
C23_Witness ==
    \E p \in Procs :
        /\ stateDir = "readonly"
        /\ pc[p] = "crashed"
        /\ Has(trace[p], "round")
        /\ tokenAt[p].kind = "text"
        /\ tally["CRASH"] = MaxRuns

\* C24: a request sent on one connection is eventually taken up by the
\* server (answered, or reset by a shutdown), whatever other clients do with
\* their connections, a client that connects and never sends included
C24_RequestsEventuallyTaken ==
    \A c \in Clients : (conns[c].state = "queued") ~> (conns[c].state # "queued")

\* C25: the exit code of validate_scoreboard.py follows its table in both
\* modes: 2 whenever every fetch failed with a connection error, 1 only when
\* a scoreboard was fetched and shows a service DOWN, 0 only when a fetched
\* scoreboard shows every service UP
C25_ExitCodeFollowsTable ==
    vs.pc = "exited" =>
        /\ (vs.tried > 0 /\ vs.refused = vs.tried) => vs.exit = 2
        /\ vs.exit = 1 => vs.fetched /\ ~validate_services(vs.seen)
        /\ vs.exit = 0 => vs.fetched /\ validate_services(vs.seen)

\* a state file whose content is no non-negative integer
Corrupt(file) ==
    /\ file.kind # "none"
    /\ \/ file.kind # "text"
       \/ ~ParseInt(file.text).ok
       \/ ParseInt(file.text).val < 0

\* C26: an invocation that finds the state file corrupt (empty, no number,
\* or a negative number) behaves as on a fresh counter: it stores 1, the
\* round is a check round exactly when the interval is 1, and it does not fail
C26_CorruptCounterCountsAsZero ==
    \A p \in Procs :
        (Over(p) /\ Corrupt(before[p].file)) =>
            /\ pc[p] = "exited"
            /\ after[p] = 1
            /\ WebCounter = TextFile(Str(1))
            /\ ret[p] = "True" <=> interval = 1

\* the invocation that just ended was the k-th of a run in which every
\* invocation had a readable token and stored its count
KthOf(p, k) == Over(p) /\ Quiet /\ started = k /\ advanced = k

\* C27: with a readable token and the state file absent at first, the k-th
\* sequential invocation prints SKIP_INTERVAL exactly when k mod interval is
\* not 0, whatever the service status and the flags on disk, and otherwise
\* prints exactly one of SERVICE_DOWN, FLAG_VALID, FLAG_NOT_FOUND
C27_SkipExceptEveryNth ==
    \A p \in Procs : \A k \in 1..started :
        (KthOf(p, k) /\ interval >= 1) =>
            /\ Printed(p, "SKIP_INTERVAL") <=> k % interval # 0
            /\ k % interval = 0 =>
                  \E line \in {"SERVICE_DOWN", "FLAG_VALID", "FLAG_NOT_FOUND"} : Printed(p, line)

\* the host labels whose tree the Flag Scanner accepts for the aggregator's
\* filename and token
HostsScannerAccepts ==
    {i \in 1..Len(configFile.paths) :
        find_valid_flag(fsys[configFile.paths[i][2]], AggFilename,
                        Strip(agg.tokenAt.text)) = "TRUE"}

\* C28: with token and configuration readable, count_flags returns the
\* number of host labels for which find_valid_flag returns true, whatever
\* the trees hold
C28_CountIsScannerPerHost ==
    (AggOver /\ agg.tokenAt.kind = "text" /\ configFile.kind = "object") =>
        /\ agg.state = "exited"
        /\ agg.count = Cardinality(HostsScannerAccepts)

\* C29: an aggregation pass reads and changes no round counter and does not
\* query the database: whenever the aggregator runs between or during
\* validator invocations, the counter file holds exactly the validator's
\* own invocations, the k-th invocation skips exactly when k mod interval is
\* not 0, and the aggregator's count is the number of hosts holding the flag
\* whether the service is UP or DOWN and whatever the counter holds
C29_AggregatorLeavesRoundsAlone ==
    /\ Quiet => WebCounter = CounterHolding(started)
    /\ advanced <= started
    /\ \A p \in Procs :
           (Over(p) /\ Quiet) =>
               (Printed(p, "SKIP_INTERVAL") <=> started % interval # 0)
    /\ AggOver =>
           /\ agg.state = "exited"
           /\ agg.count = Cardinality(HostsScannerAccepts)

\* the aggregator ran twice around six validator rounds of a service that
\* is DOWN, and counted the planted flag
C29_Witness ==
    /\ Quiet
    /\ started = MaxCalls
    /\ db = DownDb
    /\ tally["SERVICE_DOWN"] >= 1
    /\ agg.runs = MaxRuns
    /\ agg.count >= 1
    /\ WebCounter = CounterHolding(MaxCalls)

\* the token file exists and holds nothing but whitespace
EmptyToken(file) == file.kind = "text" /\ Strip(file.text) = << >>

\* C30: against a token file that is empty or whitespace-only the validator
\* never prints FLAG_VALID and count_flags never counts a host, whatever
\* flag-named files exist under the search paths
C30_NoCreditForEmptyToken ==
    /\ \A p \in Procs :
           (Over(p) /\ EmptyToken(tokenAt[p])) => ~Printed(p, "FLAG_VALID")
    /\ (AggOver /\ EmptyToken(agg.tokenAt)) => agg.count = 0

====
